---- MODULE Spec2Model ----
(***************************************************************************)
(* Model of the Kite Connect portfolio bridge (src/main.py): the Session   *)
(* Provider (get_authenticated_kite), the Portfolio Aggregator             *)
(* (calculate_and_build_portfolio_data), the Snapshot Store (the JSON file *)
(* at CACHE_FILE_PATH, load_snapshot and the write in save_daily_data) and *)
(* the two controllers get_full_portfolio and save_daily_data.             *)
(*                                                                         *)
(* Money is kept in thousandths of a rupee (an average price carries more   *)
(* than two decimals), percentages in hundredths of a percent, so that     *)
(* round(x, 2) is a real rounding on both.  Time is a logical clock that   *)
(* advances by one on every upstream call.                                 *)
(***************************************************************************)
EXTENDS Integers, Sequences, FiniteSets, TLC

\* ------------------------------------------------------------------ bounds
\* Live-capable requests (live, auto, save) start only while clock < MaxClock
\* when requests are served one at a time, and while clock < MaxClockConc when
\* they overlap.
MaxClock == 5
MaxClockConc == 3

\* The file object's write buffer, in chunks of JSON text: json.dump's output
\* reaches the file one full buffer at a time, the rest when the file closes.
BufferChunks == 3

\* The longest holdings list the aggregator is applied to on its own.
MaxHoldings == 2

\* The request slots of the host's worker pool.
Procs == {"r1", "r2"}

\* ------------------------------------------------------- strings and dicts
None == "None"
EmptyDict == [k \in {} |-> 0]

\* d[k] = v, the key added when missing (dict item assignment).
SetKey(d, k, v) == [x \in (DOMAIN d) \cup {k} |-> IF x = k THEN v ELSE d[x]]

\* sub in s, for strings.
Contains(s, sub) ==
    \E i \in 1..(Len(s) - Len(sub) + 1) : SubSeq(s, i, i + Len(sub) - 1) = sub

StartsWith(s, pre) == Len(s) >= Len(pre) /\ SubSeq(s, 1, Len(pre)) = pre

CACHE_FILE_PATH == "/tmp/portfolio_data.json"

\* ------------------------------------------------------------- arithmetic
Abs(n) == IF n < 0 THEN -n ELSE n

\* round(n / d) to the nearest integer, ties to even (Python's round), d # 0.
RoundDiv(n, d) ==
    LET a == Abs(n)
        b == Abs(d)
        q == a \div b
        r == a % b
        m == IF 2 * r < b THEN q
             ELSE IF 2 * r > b THEN q + 1
             ELSE IF q % 2 = 0 THEN q ELSE q + 1
    IN  IF (n < 0) = (d < 0) THEN m ELSE -m

\* round(x, 2) of an amount x in thousandths: the nearest hundredth.
Round2(x) == 10 * RoundDiv(x, 10)

\* round((num / den) * 100, 2) in hundredths of a percent, den # 0.  The
\* product num * 10000 is divided in two steps of 100 to stay within 32-bit
\* integers; the quotient and the remainder are the exact ones.
RoundPct(num, den) ==
    LET a == Abs(num)
        b == Abs(den)
        q1 == (a * 100) \div b
        r1 == (a * 100) % b
        q == q1 * 100 + ((r1 * 100) \div b)
        r == (r1 * 100) % b
        m == IF 2 * r < b THEN q
             ELSE IF 2 * r > b THEN q + 1
             ELSE IF q % 2 = 0 THEN q ELSE q + 1
    IN  IF (num < 0) = (den < 0) THEN m ELSE -m

\* A percentage that reads a zero base under a non-zero amount as 100 percent.
Pct_ZeroBaseIsFull(num, den) ==
    IF den # 0 THEN RoundPct(num, den) ELSE IF num = 0 THEN 0 ELSE 10000

\* round((num / den) * 100, 2) if den != 0 else 0
Pct(num, den) == IF den # 0 THEN RoundPct(num, den) ELSE 0

\* str(instrument_token)
TokenStr(t) == IF t = 111 THEN "111" ELSE IF t = 222 THEN "222" ELSE "333"

\* ------------------------------------------------------ upstream universe
MkHolding(sym, tok, qty, avg) ==
    [tradingsymbol |-> sym, exchange |-> "NSE", instrument_token |-> tok,
     quantity |-> qty, average_price |-> avg]

MkQuote(tok, last, close) ==
    [instrument_token |-> tok, last_price |-> last, ohlc |-> [close |-> close]]

hACME == MkHolding("ACME", 111, 10, 100000)
hZERO == MkHolding("ZERO", 222, 3, 0)

qACME == MkQuote(111, 120000, 115000)
qZERO == MkQuote(222, 7000, 6500)

\* What kite.holdings() may return.
HoldingsResponses == { <<>>, <<hACME, hZERO>> }

\* What kite.quote(tokens) may return: a dict keyed by the token as a string.
QuoteResponses ==
    { [k \in {"111", "222"} |-> IF k = "111" THEN qACME ELSE qZERO],
      [k \in {"111"} |-> qACME] }

\* The holdings the aggregator is applied to on its own: long, short and
\* zero quantities, average prices of zero and with a third decimal.
BuildHoldingUniverse ==
    { MkHolding(IF tok = 111 THEN "ACME" ELSE "ZERO", tok, qty, avg) :
        tok \in {111, 222}, qty \in {-1, 0, 1, 3}, avg \in {0, 1004, 100000} }

RECURSIVE SeqsUpTo(_, _)
SeqsUpTo(S, n) ==
    IF n = 0 THEN { <<>> }
    ELSE LET shorter == SeqsUpTo(S, n - 1)
         IN  shorter \cup { Append(sq, x) : sq \in shorter, x \in S }

BuildHoldingsResponses == SeqsUpTo(BuildHoldingUniverse, MaxHoldings)

\* The quotes it is applied to: a quote for any subset of three instruments,
\* the third held by nobody.
BuildQuote(k) ==
    IF k = "111" THEN qACME ELSE IF k = "222" THEN qZERO
    ELSE MkQuote(333, 50000, 50500)

BuildQuoteResponses ==
    { [k \in K |-> BuildQuote(k)] : K \in SUBSET {"111", "222", "333"} }

\* The text of an exception raised by an upstream call.
UpstreamErrors == { "timeout" }

\* ------------------------------------------------- Portfolio Aggregator
EmptySnapshot ==
    [holdings |-> <<>>, totals |-> EmptyDict, quotes |-> EmptyDict,
     build_metrics |-> [error |-> "No holdings found"]]

\* An enrichment loop that puts each matched holding in front of the
\* earlier ones.
RECURSIVE Matched_NewestFirst(_, _)
Matched_NewestFirst(hs, qs) ==
    IF hs = <<>> THEN <<>>
    ELSE LET h == Head(hs)
         IN  IF TokenStr(h.instrument_token) \in DOMAIN qs
             THEN Matched_NewestFirst(Tail(hs), qs) \o <<h>>
             ELSE Matched_NewestFirst(Tail(hs), qs)

\* The holdings that have a quote, in upstream order (the loop's `continue`).
RECURSIVE Matched(_, _)
Matched(hs, qs) ==
    IF hs = <<>> THEN <<>>
    ELSE LET h == Head(hs)
         IN  IF TokenStr(h.instrument_token) \in DOMAIN qs
             THEN <<h>> \o Matched(Tail(hs), qs)
             ELSE Matched(Tail(hs), qs)

InvestedValue(h) == h.average_price * h.quantity
CurrentValue(h, q) == q.last_price * h.quantity
TodaysPnl(h, q) == (q.last_price - q.ohlc.close) * h.quantity

Enrich(h, q) ==
    [symbol |-> h.tradingsymbol,
     exchange |-> h.exchange,
     qty |-> h.quantity,
     avg_price |-> h.average_price,
     invested_value |-> Round2(InvestedValue(h)),
     ltp |-> q.last_price,
     current_value |-> Round2(CurrentValue(h, q)),
     net_pnl_abs |-> Round2(CurrentValue(h, q) - InvestedValue(h)),
     net_pnl_pct |-> Pct(CurrentValue(h, q) - InvestedValue(h), InvestedValue(h)),
     todays_pnl_abs |-> Round2(TodaysPnl(h, q)),
     todays_pnl_pct |-> Pct(TodaysPnl(h, q), InvestedValue(h))]

RECURSIVE SumInvested(_)
SumInvested(ms) ==
    IF ms = <<>> THEN 0 ELSE InvestedValue(Head(ms)) + SumInvested(Tail(ms))

RECURSIVE SumCurrent(_, _)
SumCurrent(ms, qs) ==
    IF ms = <<>> THEN 0
    ELSE CurrentValue(Head(ms), qs[TokenStr(Head(ms).instrument_token)])
         + SumCurrent(Tail(ms), qs)

RECURSIVE SumTodays(_, _)
SumTodays(ms, qs) ==
    IF ms = <<>> THEN 0
    ELSE TodaysPnl(Head(ms), qs[TokenStr(Head(ms).instrument_token)])
         + SumTodays(Tail(ms), qs)

\* Totals added up from the rounded figures of the positions.
Totals_FromRounded(ms, qs) ==
    LET q(i) == qs[TokenStr(ms[i].instrument_token)]
        inv[i \in 0..Len(ms)] ==
            IF i = 0 THEN 0 ELSE inv[i - 1] + Round2(InvestedValue(ms[i]))
        cur[i \in 0..Len(ms)] ==
            IF i = 0 THEN 0 ELSE cur[i - 1] + Round2(CurrentValue(ms[i], q(i)))
        tod[i \in 0..Len(ms)] ==
            IF i = 0 THEN 0 ELSE tod[i - 1] + Round2(TodaysPnl(ms[i], q(i)))
        total_invested == inv[Len(ms)]
        total_current_value == cur[Len(ms)]
        total_todays_pnl == tod[Len(ms)]
        total_net_pnl == total_current_value - total_invested
    IN  [invested_value |-> total_invested,
         current_value |-> total_current_value,
         net_pnl_abs |-> total_net_pnl,
         net_pnl_pct |-> Pct(total_net_pnl, total_invested),
         todays_pnl_abs |-> total_todays_pnl,
         todays_pnl_pct |-> Pct(total_todays_pnl, total_invested)]

Totals(ms, qs) ==
    LET total_invested == SumInvested(ms)
        total_current_value == SumCurrent(ms, qs)
        total_todays_pnl == SumTodays(ms, qs)
        total_net_pnl == total_current_value - total_invested
    IN  [invested_value |-> Round2(total_invested),
         current_value |-> Round2(total_current_value),
         net_pnl_abs |-> Round2(total_net_pnl),
         net_pnl_pct |-> Pct(total_net_pnl, total_invested),
         todays_pnl_abs |-> Round2(total_todays_pnl),
         todays_pnl_pct |-> Pct(total_todays_pnl, total_invested)]

\* The quotes index: one entry per quote returned, keyed by str(token).
QuotesIndex(qs) ==
    LET keys == { TokenStr(qs[k].instrument_token) : k \in DOMAIN qs }
        src(key) == CHOOSE k \in DOMAIN qs : TokenStr(qs[k].instrument_token) = key
    IN  [key \in keys |-> [close |-> qs[src(key)].ohlc.close,
                           ltp |-> qs[src(key)].last_price]]

\* A build whose quotes index keeps only the quotes matched to a holding.
BuildSnapshot_IndexesMatchedOnly(hs, qs, start, end) ==
    LET ms == Matched(hs, qs)
        held == { TokenStr(ms[i].instrument_token) : i \in 1..Len(ms) }
    IN  [holdings |-> [i \in 1..Len(ms) |->
                          Enrich(ms[i], qs[TokenStr(ms[i].instrument_token)])],
         totals |-> Totals(ms, qs),
         quotes |-> QuotesIndex([k \in held |-> qs[k]]),
         build_metrics |-> [build_ms |-> end - start,
                            quotes_ok |-> TRUE,
                            holdings_ok |-> TRUE,
                            timestamp_utc |-> end]]

\* The value returned by a build that fetched hs and qs between start and end.
BuildSnapshot(hs, qs, start, end) ==
    LET ms == Matched(hs, qs)
    IN  [holdings |-> [i \in 1..Len(ms) |->
                          Enrich(ms[i], qs[TokenStr(ms[i].instrument_token)])],
         totals |-> Totals(ms, qs),
         quotes |-> QuotesIndex(qs),
         build_metrics |-> [build_ms |-> end - start,
                            quotes_ok |-> TRUE,
                            holdings_ok |-> TRUE,
                            timestamp_utc |-> end]]

\* ---------------------------------------------------------- Snapshot Store
\* The JSON text json.dump(d, f, indent=2) produces, as the chunks it writes:
\* the opening brace, one member per key of d in insertion order, the closing
\* brace.
KeyOrder == <<"holdings", "totals", "quotes", "build_metrics", "source", "mode_used">>

InDict(d, k) == k \in DOMAIN d

\* A save that serialises everything but the build metrics.
Dump_OmitsBuildMetrics(d) ==
    LET keys == SelectSeq(KeyOrder, LAMBDA k : InDict(d, k) /\ k # "build_metrics")
    IN  <<[t |-> "open"]>>
        \o [i \in 1..Len(keys) |-> [t |-> "member", k |-> keys[i], v |-> d[keys[i]]]]
        \o <<[t |-> "close"]>>

Dump(d) ==
    LET keys == SelectSeq(KeyOrder, LAMBDA k : InDict(d, k))
    IN  <<[t |-> "open"]>>
        \o [i \in 1..Len(keys) |-> [t |-> "member", k |-> keys[i], v |-> d[keys[i]]]]
        \o <<[t |-> "close"]>>

\* json.load accepts exactly one complete object.
WellFormed(text) ==
    /\ Len(text) >= 2
    /\ text[1].t = "open"
    /\ text[Len(text)].t = "close"
    /\ \A i \in 2..(Len(text) - 1) : text[i].t = "member"

\* The dict json.load builds from a well-formed text (a repeated key keeps
\* its last value).
Parse(text) ==
    LET idx == 2..(Len(text) - 1)
        keys == { text[i].k : i \in idx }
        last(key) == CHOOSE i \in idx :
                        /\ text[i].k = key
                        /\ \A j \in idx : text[j].k = key => j <= i
    IN  [key \in keys |-> text[last(key)].v]

NoneRec == [none |-> TRUE]

\* f.write through a handle positioned at offset pos: the chunks overwrite
\* what is there, and a gap left by another handle's truncation reads as
\* NUL bytes.
WriteAt(text, pos, chunks) ==
    LET n == IF Len(text) > pos + Len(chunks) THEN Len(text) ELSE pos + Len(chunks)
    IN  [i \in 1..n |->
            IF i > pos /\ i <= pos + Len(chunks) THEN chunks[i - pos]
            ELSE IF i <= Len(text) THEN text[i]
            ELSE [t |-> "nul"]]

\* load_snapshot(): None when the file does not exist or does not parse.
load_snapshot(f) ==
    IF ~f.exists THEN NoneRec
    ELSE IF WellFormed(f.text) THEN Parse(f.text)
    ELSE NoneRec

\* The file holds one complete JSON object.
Complete(f) == f.exists /\ WellFormed(f.text)

\* A handler that serves whatever load_snapshot returned.
Usable_NoCheck(snapshot) == TRUE

\* `snapshot and snapshot.get("holdings") is not None`
Usable(snapshot) ==
    /\ snapshot # NoneRec
    /\ DOMAIN snapshot # {}
    /\ "holdings" \in DOMAIN snapshot

\* ------------------------------------------------------------------- state
VARIABLES
    token,      \* KITE_ACCESS_TOKEN: "absent", "unbindable" or "present"
    file,       \* the file at CACHE_FILE_PATH: [exists, text]
    clock,      \* datetime.datetime.now()
    req,        \* per request slot: the handler's position and locals, and
                \* history: calls made, liveFail (the stage the live path
                \* failed at), built, hadRecord (the file held a complete
                \* record when the request arrived), observed (the file as
                \* load_snapshot read it), holdingsCall (how kite.holdings()
                \* ended: "returned" or "raised"), asked (the tokens passed
                \* to kite.quote), qs (what kite.quote returned), args (the
                \* query parameters of a GET /api/ohlc)
    file0,      \* history: the file when the request being served arrived
                \* (kept while requests are served one at a time)
    lastSaved,  \* history: the snapshot of the last save answered with success
    saveFailed, \* history: some save was answered with 401 or 500
    ioFault     \* history: some open or write of the file raised

vars == <<token, file, clock, req, file0, lastSaved, saveFailed, ioFault>>

Credentials == {"absent", "unbindable", "present"}

NoCalls == [session |-> 0, holdings |-> 0, quote |-> 0, load |-> 0,
            instruments |-> 0, historical |-> 0]

IdleReq ==
    [pc |-> "idle", kind |-> "none", mode |-> "none", kite |-> None,
     start |-> 0, hs |-> <<>>, payload |-> NoneRec, live_err |-> None,
     todo |-> <<>>, pos |-> 0, resp |-> NoneRec,
     calls |-> NoCalls, liveFail |-> "none", built |-> FALSE,
     hadRecord |-> FALSE, observed |-> NoneRec, holdingsCall |-> "none",
     asked |-> <<>>, qs |-> EmptyDict, args |-> NoneRec]

Init ==
    /\ token \in Credentials
    /\ file = [exists |-> FALSE, text |-> <<>>]
    /\ clock = 0
    /\ req = [p \in Procs |-> IdleReq]
    /\ file0 = file
    /\ lastSaved = NoneRec
    /\ saveFailed = FALSE
    /\ ioFault = FALSE

HTTPException(code, detail) == [status |-> code, detail |-> detail]
Ok(body) == [status |-> 200, body |-> body]

Annotate(d, source, mode_used) ==
    SetKey(SetKey(d, "source", source), "mode_used", mode_used)

Bump(c, k) == [c EXCEPT ![k] = @ + 1]

\* ----------------------------------------------------------------- actions
\* The operator rotates, removes or breaks the credential out of band.
SetCredential ==
    /\ \E c \in Credentials \ {token} : token' = c
    /\ UNCHANGED <<file, clock, req, lastSaved, saveFailed, ioFault, file0>>

\* A request arrives: GET /api/portfolio?mode=m or GET /api/save_daily_data.
\* With overlap = FALSE the host serves one request at a time.
Start(p, overlap) ==
    /\ req[p].pc = "idle"
    /\ overlap \/ \A q \in Procs : req[q].pc = "idle"
    /\ \E kind \in {"portfolio", "save"} :
       \E m \in {"live", "cache", "auto"} :
          /\ kind = "save" => m = "live"
          /\ (kind = "save" \/ m # "cache") =>
                clock < (IF overlap THEN MaxClockConc ELSE MaxClock)
          /\ req' = [req EXCEPT ![p] =
                [IdleReq EXCEPT !.kind = kind, !.hadRecord = Complete(file),
                                !.mode = IF kind = "save" THEN "none" ELSE m,
                                !.pc = IF kind = "portfolio" /\ m = "cache"
                                       THEN "load" ELSE "auth"]]
    /\ file0' = (IF overlap THEN file0 ELSE file)
    /\ UNCHANGED <<token, file, clock, lastSaved, saveFailed, ioFault>>

\* `if live_err`
Truthy(s) == s # None /\ s # ""

\* str(e) of an HTTPException
StrHTTPException(code, detail) == code \o ": " \o detail

AUTH_ERR == "Authentication failed or token invalid."

\* A provider that hands out the handle without the try around the binding.
get_authenticated_kite_BindUnchecked(tok) == IF tok # "absent" THEN "kite" ELSE None

\* get_authenticated_kite(): None when the token is missing or binding raises.
get_authenticated_kite(tok) == IF tok = "present" THEN "kite" ELSE None

\* A caller that tries a failed holdings fetch a second time.
OnBuildError_RetriesOnce(r, detail, stage) ==
    IF stage = "holdings" /\ r.calls.holdings < 2
    THEN [r EXCEPT !.pc = "holdings"]
    ELSE IF r.kind = "save"
    THEN [r EXCEPT !.pc = "done",
                   !.resp = HTTPException(500,
                       "An error occurred while generating or saving portfolio data: "
                       \o StrHTTPException("500", detail))]
    ELSE IF r.mode = "live"
    THEN [r EXCEPT !.pc = "done", !.liveFail = stage,
                   !.resp = HTTPException(503, "Live fetch failed: " \o detail)]
    ELSE [r EXCEPT !.pc = "load", !.liveFail = stage, !.live_err = detail]

\* Live mode lets the build's HTTPException(500) through unwrapped.
OnBuildError_Reraises(r, detail, stage) ==
    IF r.kind = "save"
    THEN [r EXCEPT !.pc = "done",
                   !.resp = HTTPException(500,
                       "An error occurred while generating or saving portfolio data: "
                       \o StrHTTPException("500", detail))]
    ELSE IF r.mode = "live"
    THEN [r EXCEPT !.pc = "done", !.liveFail = stage,
                   !.resp = HTTPException(500, detail)]
    ELSE [r EXCEPT !.pc = "load", !.liveFail = stage, !.live_err = detail]

\* How each caller handles calculate_and_build_portfolio_data raising
\* HTTPException(500, detail) at the given stage.
OnBuildError(r, detail, stage) ==
    IF r.kind = "save"
    THEN [r EXCEPT !.pc = "done",
                   !.resp = HTTPException(500,
                       "An error occurred while generating or saving portfolio data: "
                       \o StrHTTPException("500", detail))]
    ELSE IF r.mode = "live"
    THEN [r EXCEPT !.pc = "done", !.liveFail = stage,
                   !.resp = HTTPException(503, "Live fetch failed: " \o detail)]
    ELSE [r EXCEPT !.pc = "load", !.liveFail = stage, !.live_err = detail]

\* An auto request that goes on to the snapshot file after a live build.
OnBuilt_AutoAlsoLoads(r, snap) ==
    IF r.kind = "save"
    THEN [r EXCEPT !.pc = "open", !.payload = snap, !.built = TRUE]
    ELSE IF r.mode = "auto"
    THEN [r EXCEPT !.pc = "load", !.payload = snap, !.built = TRUE]
    ELSE [r EXCEPT !.pc = "done", !.payload = snap, !.built = TRUE,
                   !.resp = Ok(Annotate(snap, "LIVE", "live"))]

\* Both portfolio modes tag a live build mode_used = "live".
OnBuilt_TagsLive(r, snap) ==
    IF r.kind = "save"
    THEN [r EXCEPT !.pc = "open", !.payload = snap, !.built = TRUE]
    ELSE [r EXCEPT !.pc = "done", !.payload = snap, !.built = TRUE,
                   !.resp = Ok(Annotate(snap, "LIVE", "live"))]

\* How each caller continues when the build returned snap.
OnBuilt(r, snap) ==
    IF r.kind = "save"
    THEN [r EXCEPT !.pc = "open", !.payload = snap, !.built = TRUE]
    ELSE [r EXCEPT !.pc = "done", !.payload = snap, !.built = TRUE,
                   !.resp = Ok(Annotate(snap, "LIVE",
                               IF r.mode = "live" THEN "live" ELSE "auto_live"))]

\* Every caller treats a missing handle as auto mode does: on to the cache.
OnUnavailable_FallsBack(r) ==
    [r EXCEPT !.pc = "load", !.liveFail = "auth", !.live_err = AUTH_ERR]

\* How each caller handles `if not kite`.
OnUnavailable(r) ==
    IF r.kind = "save"
    THEN [r EXCEPT !.pc = "done",
             !.resp = HTTPException(401,
                "Authentication failed. Cannot save daily data. Is KITE_ACCESS_TOKEN valid?")]
    ELSE IF r.mode = "live"
    THEN [r EXCEPT !.pc = "done", !.liveFail = "auth",
             !.resp = HTTPException(503, "Live fetch failed: " \o AUTH_ERR)]
    ELSE [r EXCEPT !.pc = "load", !.liveFail = "auth", !.live_err = AUTH_ERR]

\* kite = get_authenticated_kite(); if not kite: ...
Acquire(p) ==
    LET r == req[p]
        kite == get_authenticated_kite(token)
        r1 == [r EXCEPT !.kite = kite, !.calls = Bump(@, "session")]
    IN  /\ r.pc = "auth"
        /\ req' = [req EXCEPT ![p] =
              IF kite # None THEN [r1 EXCEPT !.pc = "holdings"] ELSE OnUnavailable(r1)]
        /\ saveFailed' = (saveFailed \/ (req'[p].pc = "done" /\ r.kind = "save"))
        /\ UNCHANGED <<token, file, clock, lastSaved, ioFault, file0>>

\* A build that reports empty holdings as a failed holdings fetch.
OnHoldings_EmptyIsFailure(r, hs) ==
    IF hs = <<>> THEN OnBuildError(r, "No holdings found", "holdings")
    ELSE [r EXCEPT !.pc = "quotes", !.hs = hs]

\* `if not holdings: return {...}`: empty holdings end the build with the
\* empty snapshot; otherwise the build goes on to the quotes.
OnHoldings(r, hs) ==
    IF hs = <<>> THEN OnBuilt(r, EmptySnapshot)
    ELSE [r EXCEPT !.pc = "quotes", !.hs = hs]

\* build_start_time = now(); holdings = kite.holdings(); if not holdings: ...
\* with kite.holdings() returning one of responses, or raising.
FetchHoldingsFrom(p, responses) ==
    LET r == req[p]
        r1 == [r EXCEPT !.start = clock, !.calls = Bump(@, "holdings")]
    IN  /\ r.pc = "holdings"
        /\ clock' = clock + 1
        /\ \/ \E e \in UpstreamErrors :
                req' = [req EXCEPT ![p] =
                          OnBuildError([r1 EXCEPT !.holdingsCall = "raised"],
                                       "Failed to fetch holdings: " \o e, "holdings")]
           \/ \E hs \in responses :
                req' = [req EXCEPT ![p] =
                          OnHoldings([r1 EXCEPT !.holdingsCall = "returned"], hs)]
        /\ saveFailed' = (saveFailed \/ (req'[p].pc = "done" /\ r.kind = "save"))
        /\ UNCHANGED <<token, file, lastSaved, ioFault, file0>>

FetchHoldings(p) == FetchHoldingsFrom(p, HoldingsResponses)

\* A quote request for the first holding only.
instrument_tokens_FirstOnly(hs) == <<hs[1].instrument_token>>

\* instrument_tokens = [h['instrument_token'] for h in holdings]
instrument_tokens(hs) == [i \in 1..Len(hs) |-> hs[i].instrument_token]

\* quotes = kite.quote(instrument_tokens); the enrichment loop; the totals;
\* with kite.quote returning one of responses, or raising.
FetchQuotesFrom(p, responses) ==
    LET r == req[p]
        r1 == [r EXCEPT !.calls = Bump(@, "quote"),
                        !.asked = instrument_tokens(r.hs)]
    IN  /\ r.pc = "quotes"
        /\ clock' = clock + 1
        /\ \/ \E e \in UpstreamErrors :
                req' = [req EXCEPT ![p] =
                          OnBuildError(r1, "Failed to fetch quotes: " \o e, "quotes")]
           \/ \E qs \in responses :
                req' = [req EXCEPT ![p] =
                          OnBuilt([r1 EXCEPT !.qs = qs],
                                  BuildSnapshot(r.hs, qs, r.start, clock + 1))]
        /\ saveFailed' = (saveFailed \/ (req'[p].pc = "done" /\ r.kind = "save"))
        /\ UNCHANGED <<token, file, lastSaved, ioFault, file0>>

FetchQuotes(p) == FetchQuotesFrom(p, QuoteResponses)

SaveError(r, text) ==
    [r EXCEPT !.pc = "done",
              !.resp = HTTPException(500,
                  "An error occurred while generating or saving portfolio data: " \o text)]

\* What open(CACHE_FILE_PATH, 'w') leaves in the file: created or truncated.
Truncated(f) == [exists |-> TRUE, text |-> <<>>]

\* open(CACHE_FILE_PATH, 'w'): creates or truncates the file, or raises.
OpenFile(p) ==
    LET r == req[p]
    IN  /\ r.pc = "open"
        /\ \/ /\ file' = Truncated(file)
              /\ req' = [req EXCEPT ![p] = [r EXCEPT !.pc = "write", !.pos = 0,
                                                   !.todo = Dump(r.payload)]]
              /\ UNCHANGED <<saveFailed, ioFault>>
           \/ /\ req' = [req EXCEPT ![p] = SaveError(r, "OSError")]
              /\ saveFailed' = TRUE
              /\ ioFault' = TRUE
              /\ UNCHANGED file
        /\ UNCHANGED <<token, clock, lastSaved, file0>>

\* The return after the with block: the receipt, or KeyError when the
\* build metrics carry no timestamp_utc.
Receipt(r) ==
    IF "timestamp_utc" \in DOMAIN r.payload.build_metrics
    THEN [r EXCEPT !.pc = "done",
                   !.resp = Ok([status |-> "success",
                                message |-> "Successfully saved portfolio data to "
                                            \o CACHE_FILE_PATH,
                                timestamp_utc |-> r.payload.build_metrics.timestamp_utc])]
    ELSE SaveError(r, "'timestamp_utc'")

\* json.dump(portfolio_data, f, indent=2): the text reaches the file one
\* buffer at a time; a flush may raise and leave what was written so far.
WriteFile(p) ==
    LET r == req[p]
    IN  /\ r.pc = "write"
        /\ \/ LET k == IF Len(r.todo) < BufferChunks THEN Len(r.todo) ELSE BufferChunks
                    rest == SubSeq(r.todo, k + 1, Len(r.todo))
                    r1 == [r EXCEPT !.todo = rest, !.pos = @ + k]
                    r2 == IF rest = <<>> THEN Receipt(r1) ELSE r1
                IN  /\ file' = [file EXCEPT !.text = WriteAt(@, r.pos, SubSeq(r.todo, 1, k))]
                    /\ req' = [req EXCEPT ![p] = r2]
                    /\ lastSaved' = IF r2.pc = "done" /\ r2.resp.status = 200
                                    THEN r.payload ELSE lastSaved
                    /\ saveFailed' = (saveFailed \/ (r2.pc = "done" /\ r2.resp.status # 200))
                    /\ UNCHANGED ioFault
           \/ /\ req' = [req EXCEPT ![p] = SaveError(r, "OSError")]
              /\ saveFailed' = TRUE
              /\ ioFault' = TRUE
              /\ UNCHANGED <<file, lastSaved>>
        /\ UNCHANGED <<token, clock, file0>>

\* The auto fallback answers a missing snapshot as cache mode does, without
\* the live failure reason.
Serve_DropsLiveReason(r, snapshot) ==
    IF Usable(snapshot)
    THEN [r EXCEPT !.resp = Ok(Annotate(snapshot, "EOD",
             IF r.mode = "cache" THEN "cache"
             ELSE "auto_fallback (live_error: " \o r.live_err \o ")"))]
    ELSE [r EXCEPT !.resp = HTTPException(503, "No cached snapshot available.")]

\* The branch on the loaded snapshot, in cache mode and in the auto fallback.
Serve(r, snapshot) ==
    IF r.mode = "cache"
    THEN IF Usable(snapshot)
         THEN [r EXCEPT !.resp = Ok(Annotate(snapshot, "EOD", "cache"))]
         ELSE [r EXCEPT !.resp = HTTPException(503, "No cached snapshot available.")]
    ELSE IF Usable(snapshot)
         THEN [r EXCEPT !.resp = Ok(Annotate(snapshot, "EOD",
                  IF Truthy(r.live_err)
                  THEN "auto_fallback (live_error: " \o r.live_err \o ")"
                  ELSE "auto_fallback"))]
         ELSE [r EXCEPT !.resp = HTTPException(503,
                  "Live fetch failed (" \o r.live_err
                  \o ") and no cached snapshot available.")]

\* A portfolio request that writes the snapshot it served back to the file.
FileAfterServe_WritesBack(f, r) ==
    IF r.resp.status = 200 THEN [exists |-> TRUE, text |-> Dump(r.resp.body)] ELSE f

\* What a portfolio request leaves in the file: it never writes it.
FileAfterServe(f, r) == f

\* snapshot = load_snapshot() and the response built from it.
LoadSnapshot(p) ==
    LET r == req[p]
        r1 == [r EXCEPT !.pc = "done", !.observed = file, !.calls = Bump(@, "load")]
    IN  /\ r.pc = "load"
        /\ req' = [req EXCEPT ![p] = Serve(r1, load_snapshot(file))]
        /\ file' = FileAfterServe(file, req'[p])
        /\ UNCHANGED <<token, clock, lastSaved, saveFailed, ioFault, file0>>

\* The response has been sent; the slot is free again.
Finish(p) ==
    /\ req[p].pc = "done"
    /\ req' = [req EXCEPT ![p] = IdleReq]
    /\ UNCHANGED <<token, file, clock, lastSaved, saveFailed, ioFault, file0>>

Step(p) ==
    \/ Acquire(p)
    \/ FetchHoldings(p)
    \/ FetchQuotes(p)
    \/ OpenFile(p)
    \/ WriteFile(p)
    \/ LoadSnapshot(p)
    \/ Finish(p)

\* One request at a time.
Next ==
    \/ SetCredential
    \/ \E p \in Procs : Start(p, FALSE)
    \/ \E p \in Procs : Step(p)

Spec == Init /\ [][Next]_vars

\* Requests overlap.
NextConc ==
    \/ SetCredential
    \/ \E p \in Procs : Start(p, TRUE)
    \/ \E p \in Procs : Step(p)

SpecConc == Init /\ [][NextConc]_vars

\* The aggregator on its own: one live request that holds a handle runs
\* calculate_and_build_portfolio_data on any holdings and quotes of the
\* wider universe.
InitBuild ==
    /\ token = "present"
    /\ file = [exists |-> FALSE, text |-> <<>>]
    /\ clock = 0
    /\ req = [p \in Procs |->
                IF p = "r1"
                THEN [IdleReq EXCEPT !.kind = "portfolio", !.mode = "live",
                                     !.pc = "holdings", !.kite = "kite",
                                     !.calls = Bump(@, "session")]
                ELSE IdleReq]
    /\ file0 = file
    /\ lastSaved = NoneRec
    /\ saveFailed = FALSE
    /\ ioFault = FALSE

NextBuild ==
    \/ FetchHoldingsFrom("r1", BuildHoldingsResponses)
    \/ FetchQuotesFrom("r1", BuildQuoteResponses)

SpecBuild == InitBuild /\ [][NextBuild]_vars

\* ------------------------------------------------ request validation
\* mode: str = Query("auto", pattern="^(auto|live|cache)$")
ModePattern == {"auto", "live", "cache"}

\* GET /api/portfolio?mode=m with an m the pattern refuses: FastAPI
\* validates the declared query parameter before it calls the handler and
\* answers a failed validation itself, with 422 Unprocessable Entity.
RejectMode(p) ==
    /\ req[p].pc = "idle"
    /\ \A q \in Procs : req[q].pc = "idle"
    /\ \E m \in {"bogus", "LIVE"} :
          /\ m \notin ModePattern
          /\ req' = [req EXCEPT ![p] =
                [IdleReq EXCEPT !.kind = "portfolio", !.mode = m, !.pc = "done",
                                !.hadRecord = Complete(file),
                                !.resp = HTTPException(422,
                                             "String should match pattern '^(auto|live|cache)$'")]]
    /\ file0' = file
    /\ UNCHANGED <<token, file, clock, lastSaved, saveFailed, ioFault>>

\* datetime.datetime.strptime(s, '%Y-%m-%d') does not raise ValueError, on
\* zero-padded input: four digits, a month 01..12, a day 01..31 (no month
\* of the universe is shorter), separated by hyphens.
Digits == {"0", "1", "2", "3", "4", "5", "6", "7", "8", "9"}
IsDate(s) ==
    /\ Len(s) = 10
    /\ \A i \in 1..4 : SubSeq(s, i, i) \in Digits
    /\ SubSeq(s, 5, 5) = "-"
    /\ SubSeq(s, 8, 8) = "-"
    /\ SubSeq(s, 6, 7) \in {"01", "02", "03", "04", "05", "06",
                              "07", "08", "09", "10", "11", "12"}
    /\ \/ SubSeq(s, 9, 9) \in {"1", "2"} /\ SubSeq(s, 10, 10) \in Digits
       \/ SubSeq(s, 9, 9) = "0" /\ SubSeq(s, 10, 10) \in Digits \ {"0"}
       \/ SubSeq(s, 9, 10) \in {"30", "31"}

\* The query parameters of GET /api/ohlc.
OhlcSymbols == {None, "acme", "ZERO", "NOPE"}
OhlcExchanges == {"NSE", "BSE"}
OhlcTokens == {None, "111"}
OhlcDates == {"2024-01-15", "2024-13-01", "15/01/2024"}

\* symbol.upper()
Upper(sym) == IF sym = "acme" THEN "ACME" ELSE sym

\* What kite.instruments(exchange) may return.
InstrumentsResponses ==
    { <<>>,
      <<[tradingsymbol |-> "ACME-EQ", instrument_token |-> 111],
        [tradingsymbol |-> "ZERO", instrument_token |-> 222]>> }

\* next((inst for inst in instruments if inst['tradingsymbol'] == name), None)
FindInstrument(instruments, name) ==
    LET hits == { i \in 1..Len(instruments) : instruments[i].tradingsymbol = name }
    IN  IF hits = {} THEN NoneRec
        ELSE instruments[CHOOSE i \in hits : \A j \in hits : i <= j]

\* The instrument the lookup settles on: on NSE the symbol with the -EQ
\* suffix first, then without it.
LookupInstrument(instruments, symbol, exchange) ==
    LET symbol_upper == Upper(symbol)
        withEQ == FindInstrument(instruments, symbol_upper \o "-EQ")
    IN  IF exchange = "NSE" /\ withEQ # NoneRec THEN withEQ
        ELSE FindInstrument(instruments, symbol_upper)

\* What kite.historical_data may return: candles whose date is a datetime.
HistoricalResponses == { <<>>, <<[date |-> [datetime |-> "2024-01-15"], close |-> 120000]>> }

\* value.isoformat() of a datetime at midnight
isoformat(d) == d.datetime \o "T00:00:00"

\* The date checks and what follows them: 400, or on to the candles.
ValidateDates(r) ==
    IF IsDate(r.args.from_date) /\ IsDate(r.args.to_date)
    THEN [r EXCEPT !.pc = "ohlc_historical"]
    ELSE [r EXCEPT !.pc = "done",
             !.resp = HTTPException(400, "Invalid date format. Please use YYYY-MM-DD.")]

\* A request arrives: GET /api/ohlc with its query parameters (from_date and
\* to_date are required, the others optional).
StartOhlc(p) ==
    /\ req[p].pc = "idle"
    /\ \A q \in Procs : req[q].pc = "idle"
    /\ clock < MaxClock
    /\ \E symbol \in OhlcSymbols, exchange \in OhlcExchanges,
          instrument_token \in OhlcTokens, from_date \in OhlcDates, to_date \in OhlcDates :
          req' = [req EXCEPT ![p] =
                [IdleReq EXCEPT !.kind = "ohlc", !.pc = "ohlc_auth",
                                !.hadRecord = Complete(file),
                                !.args = [symbol |-> symbol, exchange |-> exchange,
                                          instrument_token |-> instrument_token,
                                          from_date |-> from_date, to_date |-> to_date]]]
    /\ file0' = file
    /\ UNCHANGED <<token, file, clock, lastSaved, saveFailed, ioFault>>

\* get_ohlc_data up to its first upstream call: the handle, the check that
\* a symbol or a token was given, and, when no lookup is needed, the dates.
OhlcAcquire(p) ==
    LET r == req[p]
        kite == get_authenticated_kite(token)
        r1 == [r EXCEPT !.kite = kite, !.calls = Bump(@, "session")]
        a == r.args
    IN  /\ r.pc = "ohlc_auth"
        /\ req' = [req EXCEPT ![p] =
              IF kite = None
              THEN [r1 EXCEPT !.pc = "done",
                      !.resp = HTTPException(401,
                                  "Authentication failed. Is KITE_ACCESS_TOKEN valid?")]
              ELSE IF ~Truthy(a.symbol) /\ ~Truthy(a.instrument_token)
              THEN [r1 EXCEPT !.pc = "done",
                      !.resp = HTTPException(400,
                         "Either 'symbol' (with 'exchange') OR 'instrument_token' must be provided.")]
              ELSE IF Truthy(a.symbol) /\ ~Truthy(a.instrument_token)
              THEN [r1 EXCEPT !.pc = "ohlc_lookup"]
              ELSE ValidateDates(r1)]
        /\ UNCHANGED <<token, file, clock, lastSaved, saveFailed, ioFault, file0>>

\* instruments = kite.instruments(exchange), the search for the symbol, and
\* the date checks after it.
OhlcLookup(p) ==
    LET r == req[p]
        r1 == [r EXCEPT !.calls = Bump(@, "instruments")]
        a == r.args
    IN  /\ r.pc = "ohlc_lookup"
        /\ clock' = clock + 1
        /\ \/ \E e \in UpstreamErrors :
                req' = [req EXCEPT ![p] = [r1 EXCEPT !.pc = "done",
                          !.resp = HTTPException(500,
                              "Error looking up instrument for symbol '" \o a.symbol
                              \o "': " \o e)]]
           \/ \E instruments \in InstrumentsResponses :
                LET instrument == LookupInstrument(instruments, a.symbol, a.exchange)
                IN  req' = [req EXCEPT ![p] =
                      IF instrument = NoneRec
                      THEN [r1 EXCEPT !.pc = "done",
                              !.resp = HTTPException(404,
                                  "Symbol '" \o a.symbol \o "' not found on " \o a.exchange
                                  \o ". Please check the symbol name.")]
                      ELSE ValidateDates([r1 EXCEPT !.args.instrument_token =
                                              TokenStr(instrument.instrument_token)])]
        /\ UNCHANGED <<token, file, lastSaved, saveFailed, ioFault, file0>>

\* historical_data = kite.historical_data(...) and the serialised candles.
OhlcHistorical(p) ==
    LET r == req[p]
        r1 == [r EXCEPT !.pc = "done", !.calls = Bump(@, "historical")]
    IN  /\ r.pc = "ohlc_historical"
        /\ clock' = clock + 1
        /\ \/ \E e \in UpstreamErrors :
                req' = [req EXCEPT ![p] = [r1 EXCEPT
                          !.resp = HTTPException(500,
                              "An error occurred while fetching historical data: " \o e)]]
           \/ \E historical_data \in HistoricalResponses :
                req' = [req EXCEPT ![p] = [r1 EXCEPT
                          !.resp = Ok([i \in 1..Len(historical_data) |->
                                         [historical_data[i] EXCEPT !.date = isoformat(@)]])]]
        /\ UNCHANGED <<token, file, lastSaved, saveFailed, ioFault, file0>>

\* The requests that can be refused for their parameters, one at a time.
NextValidation ==
    \/ SetCredential
    \/ \E p \in Procs : RejectMode(p)
    \/ \E p \in Procs : StartOhlc(p)
    \/ \E p \in Procs : OhlcAcquire(p)
    \/ \E p \in Procs : OhlcLookup(p)
    \/ \E p \in Procs : OhlcHistorical(p)
    \/ \E p \in Procs : Finish(p)

SpecValidation == Init /\ [][NextValidation]_vars

TypeOK ==
    /\ token \in Credentials
    /\ clock \in 0..(MaxClock + 2 * Cardinality(Procs))
    /\ \A p \in Procs : req[p].pc \in
          {"idle", "auth", "holdings", "quotes", "open", "write", "load", "done",
           "ohlc_auth", "ohlc_lookup", "ohlc_historical"}

\* ------------------------------------------------------------------ claims
Done(p) == req[p].pc = "done"
IsPortfolio(p, m) == Done(p) /\ req[p].kind = "portfolio" /\ req[p].mode = m
IsSave(p) == Done(p) /\ req[p].kind = "save"

\* json.dump returned: every chunk of the payload reached the file.
WriteCompleted(r) == r.built /\ r.todo = <<>> /\ r.pos = Len(Dump(r.payload))

\* The text each live-path failure leaves in the response.
ReasonText(stage) ==
    IF stage = "auth" THEN AUTH_ERR
    ELSE IF stage = "holdings" THEN "Failed to fetch holdings"
    ELSE "Failed to fetch quotes"

\* C1: in auto mode, once some save has been answered with success, a
\* request whose live path fails is answered 200 with source = EOD and the
\* holdings of the last snapshot a save reported as saved (stated for runs in
\* which no open or write of the file ever raised).
C1_AutoFallbackServesLastSaved ==
    \A p \in Procs :
        (/\ IsPortfolio(p, "auto")
         /\ req[p].liveFail # "none"
         /\ lastSaved # NoneRec
         /\ ~ioFault)
        => /\ req[p].resp.status = 200
           /\ req[p].resp.body.source = "EOD"
           /\ req[p].resp.body.holdings = lastSaved.holdings

\* C2: in cache mode the answer is 503 "No cached snapshot available."
\* whenever the file is missing or does not parse, and 200 with the stored
\* holdings, source = EOD and mode_used = cache whenever it holds a record.
C2_CacheMode ==
    \A p \in Procs :
        IsPortfolio(p, "cache")
        => IF Complete(file)
           THEN /\ req[p].resp.status = 200
                /\ req[p].resp.body.source = "EOD"
                /\ req[p].resp.body.mode_used = "cache"
                /\ req[p].resp.body.holdings = Parse(file.text).holdings
           ELSE /\ req[p].resp.status = 503
                /\ req[p].resp.detail = "No cached snapshot available."

\* A cache request answered 503 although the file exists: it does not parse.
C2_Witness ==
    \E p \in Procs :
        /\ IsPortfolio(p, "cache")
        /\ file.exists
        /\ ~WellFormed(file.text)
        /\ req[p].resp.status = 503

\* C3: in live mode a missing handle is answered 503 with a reason that
\* mentions authentication, a failed holdings or quotes fetch is answered 503
\* naming the stage, and no live request ever reads the Snapshot Store.
C3_LiveModeFailure ==
    \A p \in Procs :
        IsPortfolio(p, "live")
        => /\ req[p].calls.load = 0
           /\ req[p].observed = NoneRec
           /\ req[p].resp.status \in {200, 503}
           /\ req[p].resp.status = 200 <=> req[p].built
           /\ req[p].kite = None
              => /\ req[p].resp.status = 503
                 /\ Contains(req[p].resp.detail, "Authentication")
           /\ (req[p].kite # None /\ ~req[p].built)
              => /\ req[p].liveFail \in {"holdings", "quotes"}
                 /\ Contains(req[p].resp.detail, ReasonText(req[p].liveFail))

\* A live request refused for want of a handle while a snapshot is stored.
C3_Witness ==
    \E p \in Procs :
        /\ IsPortfolio(p, "live")
        /\ req[p].kite = None
        /\ Complete(file)
        /\ req[p].resp.status = 503

\* C4: in auto mode the only failure is 503, given only when the live path
\* failed and the store yielded no snapshot, and its detail carries the live
\* failure reason and the statement that no cached snapshot was available.
C4_AutoUnavailable ==
    \A p \in Procs :
        IsPortfolio(p, "auto")
        => /\ req[p].resp.status \in {200, 503}
           /\ req[p].resp.status = 503
              => /\ req[p].liveFail # "none"
                 /\ ~req[p].built
                 /\ req[p].calls.load = 1
                 /\ ~Complete(file)
                 /\ Contains(req[p].resp.detail, ReasonText(req[p].liveFail))
                 /\ Contains(req[p].resp.detail, "no cached snapshot available")

\* An auto request answered 503 after a failed quotes fetch, the file being
\* there but unparsable.
C4_Witness ==
    \E p \in Procs :
        /\ IsPortfolio(p, "auto")
        /\ req[p].resp.status = 503
        /\ req[p].liveFail = "quotes"
        /\ file.exists

\* The (source, mode_used) pair the claim gives each path.
ClaimedTag(r) ==
    IF r.mode = "live" THEN <<"LIVE", "live">>
    ELSE IF r.mode = "cache" THEN <<"EOD", "cache">>
    ELSE IF r.built THEN <<"LIVE", "auto_live">>
    ELSE <<"EOD", "auto_fallback">>

\* The pair the code gives: the fallback's mode_used embeds the live error.
ServedTag(r) ==
    IF r.mode = "auto" /\ ~r.built
    THEN <<"EOD", "auto_fallback (live_error: " \o r.live_err \o ")">>
    ELSE ClaimedTag(r)

\* C5 as claimed: every 200 carries (LIVE, live), (EOD, cache),
\* (LIVE, auto_live) or (EOD, auto_fallback) according to its path.
C5_TagsAsClaimed ==
    \A p \in Procs :
        (Done(p) /\ req[p].kind = "portfolio" /\ req[p].resp.status = 200)
        => <<req[p].resp.body.source, req[p].resp.body.mode_used>> = ClaimedTag(req[p])

\* C5 amended: as claimed, except that the auto fallback's mode_used is
\* "auto_fallback (live_error: <reason>)" with the captured live failure
\* reason; source is LIVE exactly when the payload was built in this request
\* and EOD exactly when it was read from the Snapshot Store.
C5_Tags ==
    \A p \in Procs :
        (Done(p) /\ req[p].kind = "portfolio" /\ req[p].resp.status = 200)
        => /\ <<req[p].resp.body.source, req[p].resp.body.mode_used>> = ServedTag(req[p])
           /\ (req[p].mode = "auto" /\ ~req[p].built)
              => /\ StartsWith(req[p].resp.body.mode_used, "auto_fallback")
                 /\ Contains(req[p].resp.body.mode_used, ReasonText(req[p].liveFail))
           /\ req[p].resp.body.source = "LIVE" <=> req[p].built
           /\ req[p].resp.body.source = "EOD" <=> req[p].observed # NoneRec
           /\ req[p].built
              => req[p].resp.body.holdings = req[p].payload.holdings
           /\ ~req[p].built
              => req[p].resp.body.holdings = Parse(req[p].observed.text).holdings

\* An auto request served from the Snapshot Store after its live path failed.
C5_Witness ==
    \E p \in Procs :
        /\ IsPortfolio(p, "auto")
        /\ req[p].resp.status = 200
        /\ ~req[p].built
        /\ req[p].liveFail = "holdings"

\* C6: a save that got a handle, built its snapshot (the empty one included)
\* and wrote it is answered with a success receipt carrying the build's
\* timestamp, and the Snapshot Store then holds that snapshot.
C6_SaveReceipt ==
    \A p \in Procs :
        (IsSave(p) /\ req[p].kite # None /\ WriteCompleted(req[p]))
        => /\ req[p].resp.status = 200
           /\ req[p].resp.body.status = "success"
           /\ req[p].resp.body.timestamp_utc = req[p].payload.build_metrics.timestamp_utc
           /\ load_snapshot(file) = req[p].payload

\* C7: a save without a handle is answered 401, calls neither upstream nor
\* the Snapshot Store and leaves the file as it was; every other failed save
\* (aggregation or write) is answered 500.
C7_SaveErrors ==
    \A p \in Procs :
        IsSave(p)
        => /\ req[p].kite = None
              => /\ req[p].resp.status = 401
                 /\ req[p].calls.holdings = 0
                 /\ req[p].calls.quote = 0
                 /\ req[p].calls.load = 0
                 /\ req[p].observed = NoneRec
                 /\ file = file0
           /\ (req[p].kite # None /\ ~WriteCompleted(req[p]))
              => req[p].resp.status = 500
           /\ req[p].resp.status \in {200, 401, 500}

\* A save refused with 401 while the Snapshot Store holds a record.
C7_Witness ==
    \E p \in Procs :
        /\ IsSave(p)
        /\ req[p].kite = None
        /\ req[p].resp.status = 401
        /\ Complete(file)

\* C8: a portfolio request, in any mode and at every step, leaves the file
\* as it found it, and no stored record carries source or mode_used.
C8_OnlySaveWrites ==
    /\ \A p \in Procs : req[p].kind = "portfolio" => file = file0
    /\ Complete(file) => DOMAIN Parse(file.text) \cap {"source", "mode_used"} = {}

\* An auto request served an annotated snapshot from a stored record.
C8_Witness ==
    \E p \in Procs :
        /\ IsPortfolio(p, "auto")
        /\ req[p].resp.status = 200
        /\ req[p].resp.body.source = "EOD"
        /\ Complete(file)

\* C9: while every save so far has succeeded and none is writing, the file
\* is exactly the text of the last saved snapshot and a load returns its
\* holdings, totals, quotes and build_metrics and nothing else.
C9_SaveReplaces ==
    (/\ lastSaved # NoneRec
     /\ ~saveFailed
     /\ \A p \in Procs : req[p].pc \notin {"open", "write"})
    => /\ file.exists
       /\ file.text = Dump(lastSaved)
       /\ load_snapshot(file) = lastSaved
       /\ DOMAIN load_snapshot(file) = {"holdings", "totals", "quotes", "build_metrics"}

\* A successful save has replaced an earlier record with other holdings.
C9_Witness ==
    \E p \in Procs :
        /\ IsSave(p)
        /\ req[p].resp.status = 200
        /\ ~saveFailed
        /\ Complete(file0)
        /\ Parse(file0.text).holdings # lastSaved.holdings
        /\ load_snapshot(file) = lastSaved

\* C10: a request that reads the Snapshot Store, and arrived when the file
\* held a complete record, reads a complete record and is answered 200, also
\* while a save is running (stated for runs in which no open or write of the
\* file ever raised and no save was answered with an error).
C10_NoTornRead ==
    \A p \in Procs :
        (/\ Done(p)
         /\ req[p].kind = "portfolio"
         /\ req[p].calls.load = 1
         /\ req[p].hadRecord
         /\ ~ioFault
         /\ ~saveFailed)
        => /\ Complete(req[p].observed)
           /\ req[p].resp.status = 200

\* C11: once two saves that were both answered with success have finished,
\* the file holds the complete text of one of their two snapshots: never a
\* mixture of both, never a text that does not parse (stated for runs in
\* which no open or write of the file ever raised).
C11_LastWriterWins ==
    \A p, q \in Procs :
        (/\ p # q
         /\ IsSave(p) /\ req[p].resp.status = 200
         /\ IsSave(q) /\ req[q].resp.status = 200
         /\ ~ioFault)
        => /\ Complete(file)
           /\ file.text \in {Dump(req[p].payload), Dump(req[q].payload)}

\* The live path of request slot p fetched the holdings and got an empty list.
HoldingsCameBackEmpty(p) ==
    /\ req[p].kite # None
    /\ req[p].holdingsCall = "returned"
    /\ req[p].hs = <<>>

\* C12: with a valid credential and empty holdings, a live or auto portfolio
\* request is answered 200 with holdings [], totals {}, build metrics that
\* flag the empty condition, and source LIVE; it is not a live failure: no
\* quote fetch, no read of the Snapshot Store.
C12_EmptyHoldingsIsLive ==
    \A p \in Procs :
        (/\ Done(p)
         /\ req[p].kind = "portfolio"
         /\ req[p].mode \in {"live", "auto"}
         /\ HoldingsCameBackEmpty(p))
        => /\ req[p].resp.status = 200
           /\ req[p].resp.body.holdings = <<>>
           /\ req[p].resp.body.totals = EmptyDict
           /\ req[p].resp.body.build_metrics.error = "No holdings found"
           /\ req[p].resp.body.source = "LIVE"
           /\ req[p].resp.body.mode_used = (IF req[p].mode = "live" THEN "live" ELSE "auto_live")
           /\ req[p].liveFail = "none"
           /\ req[p].calls.quote = 0
           /\ req[p].calls.load = 0

\* An auto request got empty holdings while the file held a complete record,
\* and was answered from the live path.
C12_Witness ==
    \E p \in Procs :
        /\ IsPortfolio(p, "auto")
        /\ HoldingsCameBackEmpty(p)
        /\ Complete(file)
        /\ req[p].resp.status = 200
        /\ req[p].resp.body.source = "LIVE"

\* Request slot p ran a build to its end on non-empty holdings.
BuiltNonEmpty(p) ==
    /\ Done(p)
    /\ req[p].built
    /\ req[p].hs # <<>>

HasQuote(h, qs) == TokenStr(h.instrument_token) \in DOMAIN qs

\* The indices of the holdings that have a quote, and the n-th of them.
QuotedIdx(hs, qs) == { i \in 1..Len(hs) : HasQuote(hs[i], qs) }
NthQuoted(hs, qs, n) ==
    CHOOSE i \in QuotedIdx(hs, qs) :
        Cardinality({ k \in QuotedIdx(hs, qs) : k < i }) = n - 1

\* C13: the Enriched Positions of a build are the holdings that have a quote,
\* one position each, in upstream order; a holding without a quote appears in
\* no position and contributes nothing to the totals: the build returns what
\* it returns for the same holdings with the unquoted ones removed.
C13_UnmatchedSkipped ==
    \A p \in Procs :
        BuiltNonEmpty(p) =>
            LET hs == req[p].hs
                qs == req[p].qs
                out == req[p].payload
                bm == out.build_metrics
            IN  /\ Len(out.holdings) = Cardinality(QuotedIdx(hs, qs))
                /\ \A j \in 1..Len(out.holdings) :
                      LET h == hs[NthQuoted(hs, qs, j)]
                      IN  /\ out.holdings[j].symbol = h.tradingsymbol
                          /\ out.holdings[j].qty = h.quantity
                          /\ out.holdings[j].avg_price = h.average_price
                /\ out = BuildSnapshot(SelectSeq(hs, LAMBDA h : HasQuote(h, qs)), qs,
                                       bm.timestamp_utc - bm.build_ms, bm.timestamp_utc)

\* A build on two holdings of different instruments and quantities, the
\* first with a non-zero invested value and no quote, the second quoted.
C13_Witness ==
    \E p \in Procs :
        /\ BuiltNonEmpty(p)
        /\ Len(req[p].hs) = 2
        /\ ~HasQuote(req[p].hs[1], req[p].qs)
        /\ InvestedValue(req[p].hs[1]) # 0
        /\ HasQuote(req[p].hs[2], req[p].qs)
        /\ Len(req[p].payload.holdings) = 1
        /\ req[p].payload.holdings[1].symbol = req[p].hs[2].tradingsymbol

RECURSIVE SeqSum(_)
SeqSum(xs) == IF xs = <<>> THEN 0 ELSE Head(xs) + SeqSum(Tail(xs))

\* The unrounded values of the positions a build put out, from the figures
\* the output carries unrounded (avg_price, qty, ltp and the quoted close).
OutInvested(pos) == [j \in 1..Len(pos) |-> pos[j].avg_price * pos[j].qty]
OutCurrent(pos) == [j \in 1..Len(pos) |-> pos[j].ltp * pos[j].qty]
OutTodays(p) ==
    LET pos == req[p].payload.holdings
        tok(j) == TokenStr(req[p].hs[NthQuoted(req[p].hs, req[p].qs, j)].instrument_token)
    IN  [j \in 1..Len(pos) |->
            (pos[j].ltp - req[p].payload.quotes[tok(j)].close) * pos[j].qty]

\* C14: in every build on non-empty holdings, the totals' invested value,
\* current value and today's P&L are the sums, rounded once, of the
\* unrounded values of exactly the positions in the output; the net P&L is
\* summed current minus summed invested; the total percentages are those of
\* the summed values.
C14_TotalsConsistent ==
    \A p \in Procs :
        BuiltNonEmpty(p) =>
            LET pos == req[p].payload.holdings
                tot == req[p].payload.totals
                inv == SeqSum(OutInvested(pos))
                cur == SeqSum(OutCurrent(pos))
                tod == SeqSum(OutTodays(p))
            IN  /\ tot.invested_value = Round2(inv)
                /\ tot.current_value = Round2(cur)
                /\ tot.todays_pnl_abs = Round2(tod)
                /\ tot.net_pnl_abs = Round2(cur - inv)
                /\ tot.net_pnl_pct = Pct(cur - inv, inv)
                /\ tot.todays_pnl_pct = Pct(tod, inv)

\* A build with two positions whose rounded invested values do not add up to
\* the total, and whose percentages do not average to the total percentage.
C14_Witness ==
    \E p \in Procs :
        /\ BuiltNonEmpty(p)
        /\ Len(req[p].payload.holdings) = 2
        /\ LET pos == req[p].payload.holdings
               tot == req[p].payload.totals
           IN  /\ tot.invested_value # pos[1].invested_value + pos[2].invested_value
               /\ tot.invested_value # 0
               /\ 2 * tot.net_pnl_pct # pos[1].net_pnl_pct + pos[2].net_pnl_pct

\* C15: in every build that got its holdings and its quotes, whatever the
\* quantities (zero, long, short) and prices: the build returns a snapshot;
\* every position whose average price times quantity is 0 has net and
\* today's P&L percentages of 0; and when the invested values of the
\* positions sum to 0 the total percentages are 0.
C15_ZeroGuard ==
    \A p \in Procs :
        (/\ Done(p)
         /\ req[p].holdingsCall = "returned"
         /\ req[p].hs # <<>>
         /\ req[p].calls.quote = 1
         /\ req[p].liveFail # "quotes")
        => /\ req[p].built
           /\ req[p].resp.status = 200
           /\ LET pos == req[p].payload.holdings
                  tot == req[p].payload.totals
              IN  /\ \A j \in 1..Len(pos) :
                        pos[j].avg_price * pos[j].qty = 0
                        => pos[j].net_pnl_pct = 0 /\ pos[j].todays_pnl_pct = 0
                  /\ SeqSum(OutInvested(pos)) = 0
                     => tot.net_pnl_pct = 0 /\ tot.todays_pnl_pct = 0

\* A build with a long and a short position whose invested values cancel
\* while the net P&L does not.
C15_Witness ==
    \E p \in Procs :
        /\ BuiltNonEmpty(p)
        /\ Len(req[p].payload.holdings) = 2
        /\ LET pos == req[p].payload.holdings
           IN  /\ pos[1].qty > 0
               /\ pos[2].qty < 0
               /\ pos[1].invested_value # 0
               /\ SeqSum(OutInvested(pos)) = 0
        /\ req[p].payload.totals.net_pnl_abs # 0
        /\ req[p].payload.totals.net_pnl_pct = 0

\* C16: in every build output on non-empty holdings, the instrument of every
\* position has an entry in the quotes index, and every quote upstream
\* returned, held or not, has its entry there with its close and last price;
\* the index has no other entry.
C16_QuotesIndexCovers ==
    \A p \in Procs :
        BuiltNonEmpty(p) =>
            LET hs == req[p].hs
                qs == req[p].qs
                out == req[p].payload
            IN  /\ \A j \in 1..Len(out.holdings) :
                      TokenStr(hs[NthQuoted(hs, qs, j)].instrument_token)
                          \in DOMAIN out.quotes
                /\ \A k \in DOMAIN qs :
                      /\ TokenStr(qs[k].instrument_token) \in DOMAIN out.quotes
                      /\ out.quotes[TokenStr(qs[k].instrument_token)]
                            = [close |-> qs[k].ohlc.close, ltp |-> qs[k].last_price]
                /\ Cardinality(DOMAIN out.quotes) = Cardinality(DOMAIN qs)

\* A build that put out a position and was also given a quote for an
\* instrument nobody holds.
C16_Witness ==
    \E p \in Procs :
        /\ BuiltNonEmpty(p)
        /\ Len(req[p].payload.holdings) >= 1
        /\ \E k \in DOMAIN req[p].qs :
              /\ \A i \in 1..Len(req[p].hs) :
                    TokenStr(req[p].hs[i].instrument_token) # k
              /\ k \in DOMAIN req[p].payload.quotes

\* C17: a build calls kite.holdings() at most once and kite.quote at most
\* once, whatever the number of holdings; the quote request is made only
\* after the holdings fetch returned a non-empty list, and names the
\* instrument of every holding, in order; it is not made when the holdings
\* fetch raised or returned an empty list.
C17_TwoUpstreamCalls ==
    \A p \in Procs :
        LET r == req[p]
        IN  /\ r.calls.holdings <= 1
            /\ r.calls.quote <= 1
            /\ r.pc = "quotes" => r.calls.holdings = 1 /\ r.calls.quote = 0
            /\ r.calls.quote = 1 =>
                  /\ r.holdingsCall = "returned"
                  /\ r.hs # <<>>
                  /\ Len(r.asked) = Len(r.hs)
                  /\ \A i \in 1..Len(r.hs) : r.asked[i] = r.hs[i].instrument_token
            /\ (r.holdingsCall = "raised" \/ (r.holdingsCall = "returned" /\ r.hs = <<>>))
                  => r.pc # "quotes" /\ r.calls.quote = 0

\* A finished build on two holdings of different instruments: one holdings
\* fetch, one quote request naming both.
C17_Witness ==
    \E p \in Procs :
        /\ BuiltNonEmpty(p)
        /\ Len(req[p].hs) = 2
        /\ req[p].hs[1].instrument_token # req[p].hs[2].instrument_token
        /\ req[p].calls.holdings = 1
        /\ req[p].calls.quote = 1
        /\ Len(req[p].asked) = 2

\* What one call of get_authenticated_kite by request slot p does.
AcquireStepAsSpecified(p) ==
        (req[p].pc = "auth" /\ req'[p] # req[p])
        => /\ req'[p].calls.session = req[p].calls.session + 1
           /\ (req'[p].kite = "kite") = (token = "present")
           /\ (req'[p].kite = None) = (token \in {"absent", "unbindable"})
           /\ req'[p].kite = "kite" => req'[p].pc = "holdings"
           /\ req'[p].kite = None => req'[p].pc \in {"done", "load"}
           /\ clock' = clock
           /\ req'[p].calls.holdings = 0 /\ req'[p].calls.quote = 0

\* C18: every call of the Session Provider ends with a handle or with None,
\* decided by the credential as it is at that call alone: a handle exactly
\* when the credential is present and binds, None when it is absent or the
\* binding fails; the call makes no upstream call, and the caller goes on to
\* the build or to its handling of a missing handle.
C18_SessionProvider == [][\A p \in Procs : AcquireStepAsSpecified(p)]_vars

\* A save was refused for want of a handle, the credential was then put
\* right, and the next request got its handle.
C18_Witness ==
    \E p \in Procs :
        /\ saveFailed
        /\ clock = 0
        /\ ~ioFault
        /\ req[p].pc = "holdings"
        /\ req[p].kite = "kite"

\* Request slot p carries a parameter the service must refuse.
InvalidMode(p) == req[p].kind = "portfolio" /\ req[p].mode \notin ModePattern
MalformedDate(p) ==
    /\ req[p].kind = "ohlc"
    /\ ~(IsDate(req[p].args.from_date) /\ IsDate(req[p].args.to_date))

UpstreamCalls(r) ==
    r.calls.holdings + r.calls.quote + r.calls.instruments + r.calls.historical

\* C19: a portfolio request with an invalid mode, and an ohlc request with a
\* malformed date, is answered 400 and has made no upstream call, whatever
\* its other parameters and the credential.
C19_BadRequestFirst ==
    \A p \in Procs :
        (Done(p) /\ (InvalidMode(p) \/ MalformedDate(p)))
        => /\ req[p].resp.status = 400
           /\ UpstreamCalls(req[p]) = 0

\* How far a portfolio or save request has come: the handler's steps in the
\* order of the code, and within the write the text still to flush.
PcOrder(pc) ==
    IF pc = "idle" THEN 0 ELSE IF pc = "auth" THEN 1 ELSE IF pc = "holdings" THEN 2
    ELSE IF pc = "quotes" THEN 3 ELSE IF pc = "open" THEN 4 ELSE IF pc = "write" THEN 5
    ELSE IF pc = "load" THEN 6 ELSE 7
Progress(r) == 100 * PcOrder(r.pc) + (IF r.pc = "write" THEN r.pos ELSE 0)

\* At most one call of each kind so far, and a response exactly when done.
AtMostOnceEach(p) ==
    /\ req[p].calls.session <= 1
    /\ req[p].calls.holdings <= 1
    /\ req[p].calls.quote <= 1
    /\ req[p].calls.load <= 1
    /\ (req[p].resp # NoneRec) = (req[p].pc = "done")
    /\ req[p].pc \notin {"idle", "done"} => ENABLED Step(p)

\* Every step of a request in flight takes it forward, never back to a step
\* it has taken, and the response, once given, is not replaced.
StepsForward(p) ==
    /\ (req[p].pc \notin {"idle", "done"} /\ req'[p] # req[p])
          => Progress(req'[p]) > Progress(req[p])
    /\ (req[p].pc = "done" /\ req'[p] # req[p]) => req'[p] = IdleReq

\* C20: a portfolio or save request calls the Session Provider, the holdings
\* fetch, the quote fetch and the Snapshot Store read at most once each (the
\* auto fallback runs at most once), every step takes it forward to its one
\* response, and a step is always possible until it has responded: nothing
\* is tried twice.
C20_NoRetries ==
    /\ [](\A p \in Procs : AtMostOnceEach(p))
    /\ [][\A p \in Procs : StepsForward(p)]_vars

\* An auto request whose holdings fetch failed has fallen back and responded:
\* one session call, one holdings fetch, no quote fetch, one store read.
C20_Witness ==
    \E p \in Procs :
        /\ IsPortfolio(p, "auto")
        /\ req[p].liveFail = "holdings"
        /\ req[p].calls = [NoCalls EXCEPT !.session = 1, !.holdings = 1, !.load = 1]
        /\ req[p].resp # NoneRec

\* C21: a save answered 401 or 500 has left the file as it was when the
\* request arrived, so a cache read after it returns the snapshot saved
\* before (stated for a file that held a complete record when the save
\* arrived, and for runs in which no open or write of the file ever raised).
C21_FailedSaveLeavesStore ==
    \A p \in Procs :
        (/\ IsSave(p)
         /\ req[p].resp.status \in {401, 500}
         /\ Complete(file0)
         /\ ~ioFault)
        => /\ file = file0
           /\ load_snapshot(file) = load_snapshot(file0)

\* C22: at every point of a portfolio request, a cache request has called
\* neither the Session Provider nor upstream; a live request has not read
\* the snapshot file; an auto request reads it, or is about to, only when
\* its live attempt has failed, and never when its live build succeeded.
C22_ModeSources ==
    \A p \in Procs :
        LET r == req[p]
        IN  r.kind = "portfolio" =>
              /\ r.mode = "cache" =>
                    /\ r.calls.session = 0
                    /\ r.calls.holdings = 0 /\ r.calls.quote = 0
                    /\ r.kite = None
              /\ r.mode = "live" => r.calls.load = 0 /\ r.pc # "load"
              /\ r.mode = "auto" =>
                    /\ (r.pc = "load" \/ r.calls.load >= 1)
                          => /\ r.liveFail \in {"auth", "holdings", "quotes"}
                             /\ ~r.built
                             /\ r.calls.session = 1
                    /\ r.built => r.calls.load = 0 /\ r.pc # "load"

\* An auto request was answered from its live build while the file held a
\* complete record, and did not read it.
C22_Witness ==
    \E p \in Procs :
        /\ IsPortfolio(p, "auto")
        /\ req[p].built
        /\ req[p].hs # <<>>
        /\ Complete(file)
        /\ req[p].calls.load = 0
        /\ req[p].resp.status = 200

====
